---- MODULE Spec2Model ----
(***************************************************************************)
(* Moving-average crossover strategy and its backtest engine               *)
(* (strategies/moving_average.py, strategies/base_strategy.py).            *)
(*                                                                         *)
(* Conventions.                                                            *)
(*  - A pandas float is an exact rational <<n, d>> in lowest terms with    *)
(*    d > 0; NaN is <<0, 0>>.  Rounding of IEEE doubles is not modelled.   *)
(*  - A pandas Series is a sequence; Python index i is index i + 1 here.   *)
(*  - A DataFrame is a record of columns.  The integer columns Close,      *)
(*    Signal and Position hold integers, every other column rationals.     *)
(*  - The columns f'MA_{short_window}' and f'MA_{long_window}' are named   *)
(*    MA_short and MA_long.                                                *)
(*  - Python's None is the empty sequence, an object x is <<x>>.           *)
(***************************************************************************)
EXTENDS Integers, Sequences, FiniteSets, TLC

VARIABLES
    pc,         \* "new": no strategy object yet; "failed": __init__ raised;
                \* "ready": constructed; "done": backtest has been called
    strategy,   \* the MovingAverageStrategy object's attributes
    data,       \* the caller's price table (a DataFrame)
    call,       \* the last call made: operation and arguments
    raised,     \* the exception the last call raised, "None" if it returned
    fetcher,    \* the DataFetcher object's attributes
    cache,      \* the files of the cache directory, by path
    now,        \* the clock, in hours
    io,         \* what the last call did with the provider, per symbol asked
    returned,   \* what the last DataFetcher call returned
    calls,      \* how many DataFetcher calls have been made
    procs,      \* the concurrent get_stock_data calls, each at its step
    memo,       \* the entries kept by st.cache_data for load_and_cache_data
    analysis    \* the local variables of run_analysis

\* the state outside the strategy object and its caller
collaborators == <<fetcher, cache, now, io, returned, calls, procs, memo, analysis>>

vars == <<pc, strategy, data, call, raised, collaborators>>

----------------------------------------------------------------------------
(* Bounds of the model *)

MaxLen == 6

Prices == {1, 2}

Windows == 1..4

\* <<initial_capital, commission>> of a backtest call
BacktestArgs ==
    {<<100, <<1, 100>>>>, <<100, <<0, 1>>>>, <<100, <<-1, 100>>>>, <<100, <<3, 2>>>>,
     <<100, <<1, 1>>>>, <<0, <<1, 100>>>>, <<-100, <<1, 100>>>>}

PriceSeries == UNION {[1..n -> Prices] : n \in 0..MaxLen}

\* the longest run of closes at 5 that continues the series 10, 10, 20, 20, 5, 5
MaxTail == 2

ScenarioCloses(k) == <<10, 10, 20, 20, 5, 5>> \o [i \in 1..k |-> 5]

----------------------------------------------------------------------------
(* Float arithmetic *)

NaN == <<0, 0>>

Abs(n) == IF n < 0 THEN -n ELSE n

RECURSIVE GCD(_, _)
GCD(a, b) == IF b = 0 THEN a ELSE GCD(b, a % b)

Rat(n, d) ==
    IF d = 0 THEN NaN
    ELSE LET g == GCD(Abs(n), Abs(d))
             s == IF d < 0 THEN -1 ELSE 1
         IN  <<(s * n) \div g, (s * d) \div g>>

Float(n) == <<n, 1>>

IsNaN(x) == x[2] = 0

Add(x, y) ==
    IF IsNaN(x) \/ IsNaN(y) THEN NaN
    ELSE LET g == GCD(x[2], y[2])
         IN  Rat(x[1] * (y[2] \div g) + y[1] * (x[2] \div g), (x[2] \div g) * y[2])

Neg(x) == IF IsNaN(x) THEN NaN ELSE <<-x[1], x[2]>>

Sub(x, y) == Add(x, Neg(y))

Mul(x, y) ==
    IF IsNaN(x) \/ IsNaN(y) THEN NaN
    ELSE LET g1 == GCD(Abs(x[1]), y[2])
             g2 == GCD(Abs(y[1]), x[2])
         IN  Rat((x[1] \div g1) * (y[1] \div g2), (x[2] \div g2) * (y[2] \div g1))

\* x / y; the closes modelled are strictly positive, and a zero divisor occurs
\* only under a zero dividend (the mean of no value, a peak of 0), which is NaN
Div(x, y) ==
    IF IsNaN(x) \/ IsNaN(y) \/ y[1] = 0 THEN NaN
    ELSE Mul(x, Rat(y[2], y[1]))

FAbs(x) == IF IsNaN(x) THEN NaN ELSE <<Abs(x[1]), x[2]>>

\* IEEE comparisons: any comparison with NaN is False
\* (the two sides are brought to their least common denominator)
Lt(x, y) ==
    /\ ~IsNaN(x)
    /\ ~IsNaN(y)
    /\ LET g == GCD(x[2], y[2]) IN x[1] * (y[2] \div g) < y[1] * (x[2] \div g)

Le(x, y) ==
    /\ ~IsNaN(x)
    /\ ~IsNaN(y)
    /\ LET g == GCD(x[2], y[2]) IN x[1] * (y[2] \div g) <= y[1] * (x[2] \div g)

Gt(x, y) == Lt(y, x)

Ge(x, y) == Le(y, x)

----------------------------------------------------------------------------
(* pandas Series operations *)

Index(s) == 1..Len(s)

\* A Series holds its values: the function is tabulated once, as a tuple
Series(f) == f \o <<>>

astype_float(s) == Series([i \in Index(s) |-> Float(s[i])])

\* Series.shift(1): the first entry becomes NaN
shift(s) == Series([i \in Index(s) |-> IF i = 1 THEN NaN ELSE s[i - 1]])

fillna(s, v) == Series([i \in Index(s) |-> IF IsNaN(s[i]) THEN v ELSE s[i]])

\* Series.pct_change(): s / s.shift(1) - 1
pct_change(s) ==
    LET prev == shift(s)
    IN  Series([i \in Index(s) |-> Sub(Div(s[i], prev[i]), Float(1))])

\* Series.diff(): s - s.shift(1)
diff(s) ==
    LET prev == shift(s)
    IN  Series([i \in Index(s) |-> Sub(s[i], prev[i])])

RECURSIVE WindowSum(_, _, _)
WindowSum(s, lo, hi) == IF lo > hi THEN 0 ELSE s[hi] + WindowSum(s, lo, hi - 1)

\* faulty variant: min_periods=1, the first w - 1 entries average what there is
rolling_mean_partial(s, w) ==
    Series([i \in Index(s) |-> IF i < w THEN Rat(WindowSum(s, 1, i), i)
                               ELSE Rat(WindowSum(s, i - w + 1, i), w)])

\* Series.rolling(window=w, min_periods=w).mean() of an integer column
rolling_mean(s, w) ==
    Series([i \in Index(s) |-> IF i < w THEN NaN ELSE Rat(WindowSum(s, i - w + 1, i), w)])

\* Series.cumprod(): NaN entries are skipped (skipna) and stay NaN in the result
RECURSIVE ProdUpTo(_, _)
ProdUpTo(s, i) ==
    IF i = 0 THEN Float(1)
    ELSE IF IsNaN(s[i]) THEN ProdUpTo(s, i - 1)
    ELSE Mul(ProdUpTo(s, i - 1), s[i])

cumprod(s) == Series([i \in Index(s) |-> IF IsNaN(s[i]) THEN NaN ELSE ProdUpTo(s, i)])

\* s[0] + ... + s[i-1], the sum behind Series.mean() and Series.std()
RECURSIVE SumUpTo(_, _)
SumUpTo(s, i) == IF i = 0 THEN Float(0) ELSE Add(SumUpTo(s, i - 1), s[i])

\* DataFrame column assignment: df[k] = v for every column k of cols
Assign(df, cols) == cols @@ df

----------------------------------------------------------------------------
(* MovingAverageStrategy.generate_signals *)

\* faulty variant: a tie on the day itself counts as a cross
golden_cross_tie(ma_s, ma_l) ==
    LET prev_s == shift(ma_s)
        prev_l == shift(ma_l)
    IN  Series([i \in Index(ma_s) |-> Ge(ma_s[i], ma_l[i]) /\ Le(prev_s[i], prev_l[i])])

\* faulty variant: the previous day is tested with ~(short > long), which NaN satisfies
golden_cross_not_above(ma_s, ma_l) ==
    LET prev_s == shift(ma_s)
        prev_l == shift(ma_l)
    IN  Series([i \in Index(ma_s) |-> Gt(ma_s[i], ma_l[i]) /\ ~Gt(prev_s[i], prev_l[i])])

golden_cross(ma_s, ma_l) ==
    LET prev_s == shift(ma_s)
        prev_l == shift(ma_l)
    IN  Series([i \in Index(ma_s) |-> Gt(ma_s[i], ma_l[i]) /\ Le(prev_s[i], prev_l[i])])

\* faulty variant: a tie on the day itself counts as a downward cross
death_cross_tie(ma_s, ma_l) ==
    LET prev_s == shift(ma_s)
        prev_l == shift(ma_l)
    IN  Series([i \in Index(ma_s) |-> Le(ma_s[i], ma_l[i]) /\ Ge(prev_s[i], prev_l[i])])

death_cross(ma_s, ma_l) ==
    LET prev_s == shift(ma_s)
        prev_l == shift(ma_l)
    IN  Series([i \in Index(ma_s) |-> Lt(ma_s[i], ma_l[i]) /\ Ge(prev_s[i], prev_l[i])])

\* data['Signal'] = 0; data.loc[golden_cross, 'Signal'] = 1; data.loc[death_cross, 'Signal'] = -1
Signal(ma_s, ma_l) ==
    LET golden == golden_cross(ma_s, ma_l)
        death  == death_cross(ma_s, ma_l)
    IN  Series([i \in Index(ma_s) |-> IF death[i] THEN -1 ELSE IF golden[i] THEN 1 ELSE 0])

\* faulty variant: a sell signal goes short instead of to cash
RECURSIVE current_position_short(_, _)
current_position_short(signal, i) ==
    IF i = 0 THEN 0
    ELSE IF signal[i] = 1 THEN 1
    ELSE IF signal[i] = -1 THEN -1
    ELSE current_position_short(signal, i - 1)

\* faulty variant: a sell signal is ignored, the position is held
RECURSIVE current_position_hold(_, _)
current_position_hold(signal, i) ==
    IF i = 0 THEN 0
    ELSE IF signal[i] = 1 THEN 1
    ELSE current_position_hold(signal, i - 1)

\* current_position after the loop body has run for rows 1..i
RECURSIVE current_position(_, _)
current_position(signal, i) ==
    IF i = 0 THEN 0
    ELSE IF signal[i] = 1 THEN 1
    ELSE IF signal[i] = -1 THEN 0
    ELSE current_position(signal, i - 1)

Position(signal) == Series([i \in Index(signal) |-> current_position(signal, i)])

\* faulty variant: the early return hands back an empty table
not_enough_data_empty(df) ==
    Assign(df, [Close |-> <<>>, Signal |-> <<>>, Position |-> <<>>])

\* the early return for a table shorter than long_window: a warning, zero signals
not_enough_data(df) ==
    Assign(df, [Signal   |-> Series([i \in Index(df.Close) |-> 0]),
                Position |-> Series([i \in Index(df.Close) |-> 0])])

generate_signals(self, df) ==
    IF Len(df.Close) < self.long_window
    THEN not_enough_data(df)
    ELSE LET ma_s == rolling_mean(df.Close, self.short_window)
             ma_l == rolling_mean(df.Close, self.long_window)
             sig  == Signal(ma_s, ma_l)
         IN  Assign(df, [MA_short |-> ma_s,
                         MA_long  |-> ma_l,
                         Signal   |-> sig,
                         Position |-> Position(sig)])

----------------------------------------------------------------------------
(* BaseStrategy._calculate_returns *)

Returns(close) == pct_change(astype_float(close))

\* faulty variant: no shift, the day's own position
Position_Lagged_same(position) == astype_float(position)

\* faulty variant: shift(-1), the next day's position
Position_Lagged_ahead(position) ==
    Series([i \in Index(position) |->
               IF i = Len(position) THEN Float(0) ELSE Float(position[i + 1])])

\* data['Position'].shift(1).fillna(0)
Position_Lagged(position) == fillna(shift(astype_float(position)), Float(0))

Strategy_Returns(lagged, returns) ==
    Series([i \in Index(lagged) |-> Mul(lagged[i], returns[i])])

\* faulty variant: no diff(), the position itself
Position_Change_level(lagged) == Series([i \in Index(lagged) |-> FAbs(lagged[i])])

\* faulty variant: no abs(), a sale counts as -1
Position_Change_signed(lagged) == diff(lagged)

\* data['Position_Lagged'].diff().abs()
Position_Change(lagged) ==
    LET d == diff(lagged)
    IN  Series([i \in Index(lagged) |-> FAbs(d[i])])

Commission_Cost(change, commission) ==
    Series([i \in Index(change) |-> Mul(change[i], commission)])

Strategy_Returns_Net(gross, cost) ==
    Series([i \in Index(gross) |-> Sub(gross[i], cost[i])])

\* faulty variant: the first day's NaN is kept
BuyHold_Returns_nan(returns) == returns

\* data['Returns'].fillna(0)
BuyHold_Returns(returns) == fillna(returns, Float(0))

\* faulty variant: returns are added up instead of compounded
Cumulative_sum(r) ==
    Series([i \in Index(r) |-> IF IsNaN(r[i]) THEN NaN
                               ELSE Add(Float(1), SumUpTo(fillna(r, Float(0)), i))])

\* (1 + r).cumprod()
Cumulative(r) == cumprod(Series([i \in Index(r) |-> Add(Float(1), r[i])]))

Value(initial_capital, cumulative) ==
    Series([i \in Index(cumulative) |-> Mul(Float(initial_capital), cumulative[i])])

_calculate_returns(df, initial_capital, commission) ==
    LET returns == Returns(df.Close)
        lagged  == Position_Lagged(df.Position)
        gross   == Strategy_Returns(lagged, returns)
        change  == Position_Change(lagged)
        cost    == Commission_Cost(change, commission)
        net     == Strategy_Returns_Net(gross, cost)
        cum     == Cumulative(net)
        bh      == BuyHold_Returns(returns)
        bhcum   == Cumulative(bh)
    IN  Assign(df, [Returns              |-> returns,
                    Position_Lagged      |-> lagged,
                    Strategy_Returns     |-> gross,
                    Position_Change      |-> change,
                    Commission_Cost      |-> cost,
                    Strategy_Returns_Net |-> net,
                    Cumulative_Returns   |-> cum,
                    Portfolio_Value      |-> Value(initial_capital, cum),
                    BuyHold_Returns      |-> bh,
                    BuyHold_Cumulative   |-> bhcum,
                    BuyHold_Value        |-> Value(initial_capital, bhcum)])

----------------------------------------------------------------------------
(* BaseStrategy._calculate_metrics *)

\* Series.iloc[-1] raises IndexError on an empty Series
iloc_last_raises(s) == Len(s) = 0

iloc_last(s) == s[Len(s)]

\* Series.dropna()
dropna(s) == SelectSeq(s, LAMBDA x : ~IsNaN(x))

\* Series.mean() of a Series without NaN: NaN when it is empty
mean(s) == Div(SumUpTo(s, Len(s)), Float(Len(s)))

\* np.sqrt(x): a root is held as the rational it is the root of
np_sqrt(x) == [sq |-> x]

\* a root times a root
MulRoot(r, q) == np_sqrt(Mul(r.sq, q.sq))

\* x / r for a float x and a root r, held as the pair; a zero r does not
\* occur, _calculate_sharpe_ratio returns before it divides by one
DivRoot(x, r) ==
    IF IsNaN(x) \/ IsNaN(r.sq)
    THEN [num |-> NaN, root |-> np_sqrt(NaN)]
    ELSE [num |-> x, root |-> r]

\* faulty variant: the population deviation (ddof=0), 0 for a single value
std_population(s) ==
    LET mu == mean(s)
        sq == Series([i \in Index(s) |-> Mul(Sub(s[i], mu), Sub(s[i], mu))])
    IN  np_sqrt(Div(SumUpTo(sq, Len(sq)), Float(Len(s))))

\* Series.std() of a Series without NaN: the sample deviation (ddof=1), NaN
\* for fewer than two values
std(s) ==
    LET mu == mean(s)
        sq == Series([i \in Index(s) |-> Mul(Sub(s[i], mu), Sub(s[i], mu))])
    IN  IF Len(s) < 2 THEN np_sqrt(NaN)
        ELSE np_sqrt(Div(SumUpTo(sq, Len(sq)), Float(Len(s) - 1)))

\* Series.expanding().max(): the largest value so far, NaN values skipped
RECURSIVE MaxUpTo(_, _)
MaxUpTo(s, i) ==
    IF i = 0 THEN NaN
    ELSE LET m == MaxUpTo(s, i - 1)
         IN  IF IsNaN(s[i]) THEN m
             ELSE IF IsNaN(m) \/ Gt(s[i], m) THEN s[i] ELSE m

expanding_max(s) == Series([i \in Index(s) |-> MaxUpTo(s, i)])

\* Series.min(): the smallest value, NaN values skipped; NaN when there is none
RECURSIVE MinUpTo(_, _)
MinUpTo(s, i) ==
    IF i = 0 THEN NaN
    ELSE LET m == MinUpTo(s, i - 1)
         IN  IF IsNaN(s[i]) THEN m
             ELSE IF IsNaN(m) \/ Lt(s[i], m) THEN s[i] ELSE m

min(s) == MinUpTo(s, Len(s))

total_return(results) == Sub(iloc_last(results.Cumulative_Returns), Float(1))

buyhold_return(results) == Sub(iloc_last(results.BuyHold_Cumulative), Float(1))

\* strategy_returns.std() * np.sqrt(252)
volatility(strategy_returns) == MulRoot(std(strategy_returns), np_sqrt(Float(252)))

\* faulty variant: the drawdown is taken from the highest value of the whole curve
_calculate_max_drawdown_from_top(equity_curve) ==
    LET top == MaxUpTo(equity_curve, Len(equity_curve))
    IN  min(Series([i \in Index(equity_curve) |-> Div(Sub(equity_curve[i], top), top)]))

_calculate_max_drawdown(equity_curve) ==
    LET peak == expanding_max(equity_curve)
        drawdown == Series([i \in Index(equity_curve) |->
                               Div(Sub(equity_curve[i], peak[i]), peak[i])])
    IN  min(drawdown)

risk_free_rate == Rat(2, 100)

_calculate_sharpe_ratio(returns) ==
    IF std(returns) = np_sqrt(Float(0))
    THEN DivRoot(Float(0), np_sqrt(Float(1)))
    ELSE LET excess_return == Sub(Mul(mean(returns), Float(252)), risk_free_rate)
         IN  DivRoot(excess_return, MulRoot(std(returns), np_sqrt(Float(252))))

\* (strategy_returns > 0).sum()
winning_trades(strategy_returns) ==
    Cardinality({i \in Index(strategy_returns) : Gt(strategy_returns[i], Float(0))})

\* faulty variant: every day with a defined return counts as a trade
total_trades_all(strategy_returns) == Len(strategy_returns)

\* len(strategy_returns[strategy_returns != 0])
total_trades(strategy_returns) == Len(SelectSeq(strategy_returns, LAMBDA x : x # Float(0)))

win_rate(strategy_returns) ==
    IF total_trades(strategy_returns) > 0
    THEN Rat(winning_trades(strategy_returns), total_trades(strategy_returns))
    ELSE Float(0)

_calculate_metrics(results) ==
    LET strategy_returns == dropna(results.Strategy_Returns_Net)
    IN  [total_return   |-> total_return(results),
         buyhold_return |-> buyhold_return(results),
         excess_return  |-> Sub(total_return(results), buyhold_return(results)),
         volatility     |-> volatility(strategy_returns),
         sharpe_ratio   |-> _calculate_sharpe_ratio(strategy_returns),
         max_drawdown   |-> _calculate_max_drawdown(results.Portfolio_Value),
         win_rate       |-> win_rate(strategy_returns),
         total_trades   |-> total_trades(strategy_returns)]

----------------------------------------------------------------------------
(* The strategy object and the calls on it *)

\* no DataFetcher, no cache file, no dashboard run
NoCollaborators ==
    /\ fetcher = <<>>
    /\ cache = <<>>
    /\ now = 0
    /\ io = <<>>
    /\ returned = <<>>
    /\ calls = 0
    /\ procs = <<>>
    /\ memo = <<>>
    /\ analysis = <<>>

\* faulty variant: equal windows pass the first test
init_raises_equal_ok(short_window, long_window) ==
    short_window > long_window \/ short_window < 2

\* MovingAverageStrategy.__init__ raises ValueError for these windows
init_raises(short_window, long_window) ==
    short_window >= long_window \/ short_window < 2

Init ==
    /\ pc = "new"
    /\ strategy = <<>>
    /\ data \in {[Close |-> c] : c \in PriceSeries}
    /\ call = [op |-> "none", args |-> <<>>]
    /\ raised = "None"
    /\ NoCollaborators

\* strategy = MovingAverageStrategy(short_window, long_window)
Construct(short_window, long_window) ==
    /\ pc = "new"
    /\ call' = [op |-> "__init__", args |-> <<short_window, long_window>>]
    /\ UNCHANGED <<data, collaborators>>
    /\ IF init_raises(short_window, long_window)
       THEN /\ pc' = "failed"
            /\ raised' = "ValueError"
            /\ strategy' = <<>>
       ELSE /\ pc' = "ready"
            /\ raised' = "None"
            /\ strategy' = <<[short_window     |-> short_window,
                              long_window      |-> long_window,
                              signals          |-> <<>>,
                              backtest_results |-> <<>>]>>

\* strategy.generate_signals(data): the caller's table itself gets the columns
\* and is what the call returns
GenerateSignals ==
    /\ pc = "ready"
    /\ call' = [op |-> "generate_signals", args |-> <<data>>]
    /\ data' = generate_signals(strategy[1], data)
    /\ raised' = "None"
    /\ UNCHANGED <<pc, strategy, collaborators>>

\* strategy.backtest(data, initial_capital, commission): works on data.copy()
\* and returns self.backtest_results.  As in run_analysis and test_ma_strategy,
\* a strategy object is backtested once.
Backtest(initial_capital, commission) ==
    /\ pc = "ready"
    /\ pc' = "done"
    /\ call' = [op |-> "backtest", args |-> <<initial_capital, commission>>]
    /\ UNCHANGED <<data, collaborators>>
    /\ LET data_with_signals == generate_signals(strategy[1], data)
           results == _calculate_returns(data_with_signals, initial_capital, commission)
       IN  IF iloc_last_raises(results.Cumulative_Returns)
           THEN /\ raised' = "IndexError"
                /\ UNCHANGED strategy
           ELSE LET backtest_results ==
                        [data            |-> results,
                         equity_curve    |-> results,
                         metrics         |-> _calculate_metrics(results),
                         initial_capital |-> initial_capital,
                         commission      |-> commission]
                IN  /\ raised' = "None"
                    /\ strategy' = <<[strategy[1] EXCEPT
                                        !.backtest_results = <<backtest_results>>]>>

Next ==
    \/ \E sw \in Windows, lw \in Windows : Construct(sw, lw)
    \/ GenerateSignals
    \/ \E args \in BacktestArgs : Backtest(args[1], args[2])

Spec == Init /\ [][Next]_vars

\* the same calls on a table that holds the closes 10, 10, 20, 20, 5, 5, 5, ...
InitScenario ==
    /\ pc = "new"
    /\ strategy = <<>>
    /\ data \in {[Close |-> ScenarioCloses(k)] : k \in 0..MaxTail}
    /\ call = [op |-> "none", args |-> <<>>]
    /\ raised = "None"
    /\ NoCollaborators

SpecScenario == InitScenario /\ [][Next]_vars

\* the longest table of the runs over three price levels
MaxSignalLen == 7

SignalPrices == {1, 2, 3}

SignalSeries == UNION {[1..n -> SignalPrices] : n \in 0..MaxSignalLen}

\* a table over three price levels is there before a strategy is constructed
InitSignals ==
    /\ pc = "new"
    /\ strategy = <<>>
    /\ data \in {[Close |-> c] : c \in SignalSeries}
    /\ call = [op |-> "none", args |-> <<>>]
    /\ raised = "None"
    /\ NoCollaborators

\* a strategy is constructed and generate_signals is called on the table
NextSignals ==
    \/ \E sw \in Windows, lw \in Windows : Construct(sw, lw)
    \/ GenerateSignals

SpecSignals == InitSignals /\ [][NextSignals]_vars

----------------------------------------------------------------------------
(* utils/data_fetcher.py: DataFetcher and its cache directory *)

\* the last hour the clock reaches
MaxClock == 1

\* the most DataFetcher calls made one after the other
MaxCalls == 2

\* the values of cache_hours a DataFetcher is made with
CacheHours == {0, 1}

\* a symbol is a string, held as the sequence of its characters
Symbols == {<<"a">>, <<"A", " ">>, <<"b">>}

\* the <<symbol, period>> pairs get_stock_data is asked for
Requests == {<<<<"a">>, "1mo">>, <<<<"A", " ">>, "1mo">>, <<<<"a">>, "6mo">>}

\* what yfinance's Ticker.history does: it raises, or returns closes, maybe none
Answers ==
    {[raised |-> "ConnectionError", Close |-> <<>>]}
        \cup {[raised |-> "None", Close |-> c] : c \in {<<>>, <<1>>, <<2>>}}

\* str.upper()
UpperChar(c) == CASE c = "a" -> "A" [] c = "b" -> "B" [] OTHER -> c

upper(s) == [i \in 1..Len(s) |-> UpperChar(s[i])]

\* str.strip()
RECURSIVE lstrip(_)
lstrip(s) == IF s # <<>> /\ Head(s) = " " THEN lstrip(Tail(s)) ELSE s

RECURSIVE rstrip(_)
rstrip(s) == IF s # <<>> /\ s[Len(s)] = " " THEN rstrip(SubSeq(s, 1, Len(s) - 1)) ELSE s

strip(s) == rstrip(lstrip(s))

\* symbol.upper().strip()
normalize(symbol) == strip(upper(symbol))

\* self.cache_dir / f"{symbol}_{period}.pkl"
cache_file(symbol, period) == <<symbol, period>>

Paths == {cache_file(normalize(symbol), period) : symbol \in Symbols, period \in {"1mo", "6mo"}}

\* a path without a file
NoFile == <<>>

exists(file) == file # NoFile

\* pickle.dumps(df): a header, the frame, the STOP opcode
pickle_dumps(df) == <<"PROTO", df, "STOP">>

\* pickle.load of a file: empty, it raises EOFError; cut before STOP, UnpicklingError
pickle_load_raises(bytes) ==
    IF bytes = <<>> THEN "EOFError"
    ELSE IF Len(bytes) < 3 THEN "UnpicklingError"
    ELSE "None"

pickle_load(bytes) == bytes[2]

\* DataFrame.round(2).  The closes of the model are whole numbers.
round2(close) == [i \in Index(close) |-> (close[i] * 100) \div 100]

\* whether _fetch_from_yahoo raises, and what
_fetch_from_yahoo_raises(answer) ==
    IF answer.raised # "None" THEN answer.raised
    ELSE IF answer.Close = <<>> THEN "ValueError"
    ELSE "None"

\* what _fetch_from_yahoo returns when it does not raise
_fetch_from_yahoo(answer) ==
    LET close == round2(answer.Close)
    IN  [Close   |-> close,
         SMA_20  |-> rolling_mean(close, 20),
         SMA_50  |-> rolling_mean(close, 50),
         SMA_200 |-> rolling_mean(close, 200)]

\* faulty variant: any file that exists is served, however old
_is_cache_valid_any_age(self, file, clock) == exists(file)

\* file_time > datetime.now() - timedelta(hours=self.cache_hours)
_is_cache_valid(self, file, clock) ==
    IF ~exists(file) THEN FALSE
    ELSE file[1].mtime > clock - self.cache_hours

\* how many of the bytes a write gets to the file: -1 when open() fails, fewer
\* than all when the write fails, all when it succeeds
Written == {-1, 0, 3}

\* the exception _save_cache catches and logs
_save_cache_fails(df, written) == written # Len(pickle_dumps(df))

\* _save_cache: open(cache_file, 'wb') truncates the file, pickle.dump writes
\* it; an exception is logged and not raised
_save_cache(files, path, df, clock, written) ==
    IF written = -1 THEN files
    ELSE [files EXCEPT ![path] =
              <<[mtime |-> clock, bytes |-> SubSeq(pickle_dumps(df), 1, written)]>>]

\* the provider's answer and the fate of the write that follows it, if any
Outcomes ==
    {<<answer, written>> \in Answers \X Written :
        _fetch_from_yahoo_raises(answer) # "None" => written = -1}

\* the same for each symbol of a list
ListOutcomes ==
    {<<answer, written>> \in Outcomes :
        answer.raised = "None" => answer.Close = <<1>>}

\* _load_cache: what it raises, what it returns
_load_cache(file) ==
    IF pickle_load_raises(file[1].bytes) # "None"
    THEN [raised |-> pickle_load_raises(file[1].bytes), returned |-> <<>>]
    ELSE [raised |-> "None", returned |-> <<pickle_load(file[1].bytes)>>]

\* DataFetcher.get_stock_data: the files it leaves, whether it asked the
\* provider, what it raises and returns, for the provider's answer and the
\* fate of the write
get_stock_data(self, files, clock, symbol, period, force_refresh, answer, written) ==
    LET path == cache_file(normalize(symbol), period)
        file == files[path]
    IN  IF ~force_refresh /\ _is_cache_valid(self, file, clock)
        THEN [files |-> files, fetch |-> FALSE, saved |-> FALSE] @@ _load_cache(file)
        ELSE IF _fetch_from_yahoo_raises(answer) = "None"
        THEN LET df == _fetch_from_yahoo(answer)
             IN  [files    |-> _save_cache(files, path, df, clock, written),
                  fetch    |-> TRUE,
                  saved    |-> ~_save_cache_fails(df, written),
                  raised   |-> "None",
                  returned |-> <<df>>]
        ELSE IF exists(file)
        THEN [files |-> files, fetch |-> TRUE, saved |-> FALSE] @@ _load_cache(file)
        ELSE [files |-> files, fetch |-> TRUE, saved |-> FALSE,
              raised |-> "ValueError", returned |-> <<>>]

\* the record of one get_stock_data call: the symbol asked, whether the
\* provider was contacted and what it answered, whether the cache file was
\* written, what the call raised and returned
Contact(symbol, answer, out) ==
    [symbol   |-> symbol,
     fetch    |-> out.fetch,
     answer   |-> IF out.fetch THEN <<answer>> ELSE <<>>,
     saved    |-> out.saved,
     raised   |-> out.raised,
     returned |-> out.returned]

\* the strategy object and its caller at rest
EngineIdle ==
    /\ pc = "new"
    /\ strategy = <<>>
    /\ data = [Close |-> <<>>]

\* a DataFetcher has been constructed over an empty cache directory
InitFetcher ==
    /\ EngineIdle
    /\ call = [op |-> "none", args |-> <<>>]
    /\ raised = "None"
    /\ fetcher \in {<<[cache_hours |-> h]>> : h \in CacheHours}
    /\ cache = [path \in Paths |-> NoFile]
    /\ now = 0
    /\ io = <<>>
    /\ returned = <<>>
    /\ calls = 0
    /\ procs = <<>>
    /\ memo = <<>>
    /\ analysis = <<>>

\* fetcher.get_stock_data(symbol, period, force_refresh)
GetStockData(symbol, period, force_refresh, answer, written) ==
    /\ fetcher # <<>>
    /\ procs = <<>>
    /\ analysis = <<>>
    /\ calls < MaxCalls
    /\ calls' = calls + 1
    /\ LET out == get_stock_data(fetcher[1], cache, now, symbol, period,
                                 force_refresh, answer, written)
       IN  /\ call' = [op |-> "get_stock_data", at |-> now,
                       args |-> <<symbol, period, force_refresh>>]
           /\ cache' = out.files
           /\ raised' = out.raised
           /\ returned' = out.returned
           /\ io' = <<Contact(symbol, answer, out)>>
    /\ UNCHANGED <<pc, strategy, data, fetcher, now, procs, memo, analysis>>

\* an hour passes
Tick ==
    /\ now < MaxClock
    /\ now' = now + 1
    /\ UNCHANGED <<pc, strategy, data, call, raised, fetcher, cache, io, returned,
                   calls, procs, memo, analysis>>

\* the lists of symbols get_multiple_stocks is called with
SymbolLists == {<<>>, <<<<"a">>, <<"b">>>>, <<<<"b">>, <<"A", " ">>>>}

\* except ValueError: the symbol is skipped
skipped(error) == error = "ValueError"

\* the loop of get_multiple_stocks from symbols[i] on; st holds the files, the
\* results dictionary, the exception that escaped and the provider contacts
RECURSIVE get_multiple_stocks_from(_, _, _, _, _, _, _, _)
get_multiple_stocks_from(self, st, clock, symbols, period, answers, writtens, i) ==
    IF i > Len(symbols) \/ st.raised # "None" THEN st
    ELSE LET out == get_stock_data(self, st.files, clock, symbols[i], period, FALSE,
                                   answers[i], writtens[i])
             entry == Contact(symbols[i], answers[i], out)
         IN  get_multiple_stocks_from(
                 self,
                 [files   |-> out.files,
                  results |-> IF out.raised = "None"
                              THEN (symbols[i] :> out.returned[1]) @@ st.results
                              ELSE st.results,
                  raised  |-> IF out.raised = "None" \/ skipped(out.raised)
                              THEN "None" ELSE out.raised,
                  io      |-> Append(st.io, entry)],
                 clock, symbols, period, answers, writtens, i + 1)

get_multiple_stocks(self, files, clock, symbols, period, answers, writtens) ==
    get_multiple_stocks_from(self,
                             [files |-> files, results |-> <<>>, raised |-> "None", io |-> <<>>],
                             clock, symbols, period, answers, writtens, 1)

\* fetcher.get_multiple_stocks(symbols, period)
GetMultipleStocks(symbols, period, answers, writtens) ==
    /\ fetcher # <<>>
    /\ procs = <<>>
    /\ analysis = <<>>
    /\ calls < MaxCalls
    /\ calls' = calls + 1
    /\ LET out == get_multiple_stocks(fetcher[1], cache, now, symbols, period,
                                      answers, writtens)
       IN  /\ call' = [op |-> "get_multiple_stocks", at |-> now, args |-> <<symbols, period>>]
           /\ cache' = out.files
           /\ raised' = out.raised
           /\ returned' = IF out.raised = "None" THEN <<out.results>> ELSE <<>>
           /\ io' = out.io
    /\ UNCHANGED <<pc, strategy, data, fetcher, now, procs, memo, analysis>>

NextFetcher ==
    \/ \E r \in Requests, force_refresh \in BOOLEAN, o \in Outcomes :
          GetStockData(r[1], r[2], force_refresh, o[1], o[2])
    \/ \E symbols \in SymbolLists :
          \E os \in [1..Len(symbols) -> ListOutcomes] :
              GetMultipleStocks(symbols, "1mo",
                                [i \in 1..Len(symbols) |-> os[i][1]],
                                [i \in 1..Len(symbols) |-> os[i][2]])
    \/ Tick

SpecFetcher == InitFetcher /\ [][NextFetcher]_vars

----------------------------------------------------------------------------
(* utils/data_fetcher.py: get_stock_data called from several threads *)

\* number of threads that call get_stock_data at the same time
MaxThreads == 2

Threads == 1..MaxThreads

Idle == [pc |-> "idle", path |-> <<>>, force_refresh |-> FALSE, df |-> <<>>,
         raised |-> "None", returned |-> <<>>]

\* one DataFetcher, or one per thread over the same cache directory: no call
\* has started
InitConcurrent ==
    /\ EngineIdle
    /\ call = [op |-> "none", args |-> <<>>]
    /\ raised = "None"
    /\ fetcher \in {<<[cache_hours |-> h]>> : h \in CacheHours}
    /\ cache = [path \in Paths |-> NoFile]
    /\ now = 0
    /\ io = <<>>
    /\ returned = <<>>
    /\ calls = 0
    /\ procs = [t \in Threads |-> Idle]
    /\ memo = <<>>
    /\ analysis = <<>>

Others == <<pc, strategy, data, call, raised, fetcher, now, io, returned, memo, analysis>>

\* thread t enters get_stock_data: the symbol is normalized and the path built
Enter(t, symbol, period, force_refresh) ==
    /\ procs # <<>>
    /\ procs[t].pc \in {"idle", "done"}
    /\ calls < MaxCalls
    /\ calls' = calls + 1
    /\ procs' = [procs EXCEPT ![t] =
                    [Idle EXCEPT !.pc = "check",
                                 !.path = cache_file(normalize(symbol), period),
                                 !.force_refresh = force_refresh]]
    /\ UNCHANGED <<cache, Others>>

\* if not force_refresh and self._is_cache_valid(cache_file)
CheckCache(t) ==
    /\ procs # <<>>
    /\ procs[t].pc = "check"
    /\ procs' = [procs EXCEPT ![t].pc =
                    IF ~procs[t].force_refresh
                       /\ _is_cache_valid(fetcher[1], cache[procs[t].path], now)
                    THEN "load" ELSE "fetch"]
    /\ UNCHANGED <<cache, calls, Others>>

\* return self._load_cache(cache_file), on a cache hit or in the except handler
Load(t) ==
    /\ procs # <<>>
    /\ procs[t].pc = "load"
    /\ LET out == _load_cache(cache[procs[t].path])
       IN  procs' = [procs EXCEPT ![t].pc = "done",
                                  ![t].raised = out.raised,
                                  ![t].returned = out.returned]
    /\ UNCHANGED <<cache, calls, Others>>

\* self._fetch_from_yahoo returns or raises; on an exception the handler looks
\* for an existing cache file
Fetch(t, answer) ==
    /\ procs # <<>>
    /\ procs[t].pc = "fetch"
    /\ procs' = IF _fetch_from_yahoo_raises(answer) = "None"
                THEN [procs EXCEPT ![t].pc = "open",
                                   ![t].df = <<_fetch_from_yahoo(answer)>>]
                ELSE IF exists(cache[procs[t].path])
                THEN [procs EXCEPT ![t].pc = "load"]
                ELSE [procs EXCEPT ![t].pc = "done", ![t].raised = "ValueError"]
    /\ UNCHANGED <<cache, calls, Others>>

\* _save_cache: open(cache_file, 'wb') creates or truncates the file
Open(t) ==
    /\ procs # <<>>
    /\ procs[t].pc = "open"
    /\ cache' = [cache EXCEPT ![procs[t].path] = <<[mtime |-> now, bytes |-> <<>>]>>]
    /\ procs' = [procs EXCEPT ![t].pc = "dump"]
    /\ UNCHANGED <<calls, Others>>

\* _save_cache: pickle.dump writes the table and the file is closed; then
\* get_stock_data returns the fetched table
Dump(t) ==
    /\ procs # <<>>
    /\ procs[t].pc = "dump"
    /\ cache' = [cache EXCEPT ![procs[t].path] =
                    <<[mtime |-> now, bytes |-> pickle_dumps(procs[t].df[1])]>>]
    /\ procs' = [procs EXCEPT ![t].pc = "done", ![t].returned = procs[t].df]
    /\ UNCHANGED <<calls, Others>>

NextConcurrent ==
    \E t \in Threads :
        \/ \E r \in Requests, force_refresh \in BOOLEAN : Enter(t, r[1], r[2], force_refresh)
        \/ CheckCache(t)
        \/ Load(t)
        \/ \E answer \in Answers : Fetch(t, answer)
        \/ Open(t)
        \/ Dump(t)

SpecConcurrent == InitConcurrent /\ [][NextConcurrent]_vars

----------------------------------------------------------------------------
(* dashboard/main.py: run_analysis, over load_and_cache_data and the engine *)

\* config.py: CACHE_DURATION_HOURS, the cache_hours of DataFetcher()
CACHE_DURATION_HOURS == 1

\* @st.cache_data(ttl=3600), in hours
ttl == 1

\* pd.DataFrame(): a table with no column
EmptyFrame == <<>>

\* faulty variant: no table counts as empty
empty_never(df) == FALSE

\* DataFrame.empty
empty(df) == DOMAIN df = {} \/ Len(df.Close) = 0

\* load_and_cache_data(symbol, period): memoised by Streamlit on its arguments;
\* get_stock_data runs on a new DataFetcher(), any exception gives an empty table
load_and_cache_data(entries, files, clock, symbol, period, answer, written) ==
    LET key == <<symbol, period>>
    IN  IF key \in DOMAIN entries /\ clock - entries[key].at < ttl
        THEN [memo |-> entries, files |-> files, value |-> entries[key].value,
              contact |-> <<>>]
        ELSE LET out == get_stock_data([cache_hours |-> CACHE_DURATION_HOURS], files, clock,
                                       symbol, period, FALSE, answer, written)
                 value == IF out.raised # "None" THEN EmptyFrame
                          ELSE IF empty(out.returned[1]) THEN EmptyFrame
                          ELSE out.returned[1]
             IN  [memo    |-> (key :> [at |-> clock, value |-> value]) @@ entries,
                  files   |-> out.files,
                  value   |-> value,
                  contact |-> <<Contact(symbol, answer, out)>>]

\* the second half of backtest: metrics are computed and the results stored
backtest_results(results, initial_capital, commission) ==
    IF iloc_last_raises(results.Cumulative_Returns)
    THEN [raised |-> "IndexError", results |-> <<>>]
    ELSE [raised  |-> "None",
          results |-> <<[data            |-> results,
                         equity_curve    |-> results,
                         metrics         |-> _calculate_metrics(results),
                         initial_capital |-> initial_capital,
                         commission      |-> commission]>>]

\* strategy.backtest(data, initial_capital, commission) on a new strategy object
backtest(self, df, initial_capital, commission) ==
    IF "Close" \notin DOMAIN df
    THEN [raised |-> "KeyError", results |-> <<>>]
    ELSE backtest_results(
             _calculate_returns(generate_signals(self, df), initial_capital, commission),
             initial_capital, commission)

\* MovingAverageStrategy(short_window=params['short'], long_window=params['long'])
new_strategy(strategy_config) ==
    [short_window     |-> strategy_config.params.short,
     long_window      |-> strategy_config.params.long,
     signals          |-> <<>>,
     backtest_results |-> <<>>]

\* all_results[symbol][strategy_name] = {'strategy', 'results', 'data'}, unless
\* backtest raised
stored_result(self, df, out) ==
    [invoked |-> TRUE,
     raised  |-> out.raised,
     stored  |-> IF out.raised = "None"
                 THEN <<[strategy |-> [self EXCEPT !.backtest_results = out.results],
                         results  |-> out.results[1],
                         data     |-> df]>>
                 ELSE <<>>]

\* the body of the inner try block: what running one strategy configuration on
\* a table raises and stores
run_strategy(strategy_config, df, initial_capital, commission) ==
    IF strategy_config.type # "ma"
    THEN [invoked |-> FALSE, raised |-> "None", stored |-> <<>>]
    ELSE IF init_raises(strategy_config.params.short, strategy_config.params.long)
    THEN [invoked |-> TRUE, raised |-> "ValueError", stored |-> <<>>]
    ELSE stored_result(new_strategy(strategy_config), df,
                       backtest(new_strategy(strategy_config), df, initial_capital,
                                commission))

\* faulty variant: the error of one strategy ends the strategies of the symbol
after_strategy_error_abort(j, n) == n + 1

\* except Exception inside the strategy loop: the loop goes on with the next
\* strategy
after_strategy_error(j, n) == j + 1

StrategyLists ==
    {<<>>,
     <<[name |-> "MA 2/3", type |-> "ma", params |-> [short |-> 2, long |-> 3]]>>,
     <<[name |-> "MA 3/2", type |-> "ma", params |-> [short |-> 3, long |-> 2]],
       [name |-> "MA 2/3", type |-> "ma", params |-> [short |-> 2, long |-> 3]]>>,
     <<[name |-> "RSI", type |-> "rsi", params |-> [short |-> 2, long |-> 3]],
       [name |-> "MA 2/3", type |-> "ma", params |-> [short |-> 2, long |-> 3]]>>}

Configs ==
    {[symbols |-> symbols, period |-> "1mo", strategies |-> strategies,
      initial_capital |-> 100, commission |-> Rat(1, 100)] :
        symbols \in SymbolLists, strategies \in StrategyLists}

\* the dashboard is up: no analysis has run, nothing is memoised or cached
InitBatch ==
    /\ EngineIdle
    /\ call = [op |-> "none", args |-> <<>>]
    /\ raised = "None"
    /\ fetcher = <<>>
    /\ cache = [path \in Paths |-> NoFile]
    /\ now = 0
    /\ io = <<>>
    /\ returned = <<>>
    /\ calls = 0
    /\ procs = <<>>
    /\ memo = <<>>
    /\ analysis = <<>>

Running == analysis # <<>> /\ analysis[1].pc # "done"

\* run_analysis(analysis_config) is called
RunAnalysis(analysis_config) ==
    /\ fetcher = <<>>
    /\ procs = <<>>
    /\ ~Running
    /\ calls < MaxCalls
    /\ calls' = calls + 1
    /\ call' = [op |-> "run_analysis", at |-> now, args |-> <<analysis_config>>]
    /\ raised' = "None"
    /\ returned' = <<>>
    /\ io' = <<>>
    /\ analysis' = <<[pc          |-> "symbol",
                      config      |-> analysis_config,
                      i           |-> 1,
                      j           |-> 1,
                      data        |-> EmptyFrame,
                      all_results |-> <<>>,
                      loads       |-> <<>>,
                      runs        |-> <<>>]>>
    /\ UNCHANGED <<pc, strategy, data, fetcher, cache, now, procs, memo>>

\* for symbol in symbols: the table is loaded; an empty one skips the symbol
LoadSymbol(answer, written) ==
    /\ Running
    /\ analysis[1].pc = "symbol"
    /\ analysis[1].i <= Len(analysis[1].config.symbols)
    /\ LET a      == analysis[1]
           symbol == a.config.symbols[a.i]
           out    == load_and_cache_data(memo, cache, now, symbol, a.config.period,
                                         answer, written)
           loaded == [a EXCEPT !.loads = Append(@, [symbol  |-> symbol,
                                                    value   |-> out.value,
                                                    contact |-> out.contact])]
       IN  /\ memo' = out.memo
           /\ cache' = out.files
           /\ io' = io \o out.contact
           /\ analysis' =
                 IF empty(out.value)
                 THEN <<[loaded EXCEPT !.i = @ + 1]>>
                 ELSE IF Len(a.config.strategies) = 0
                 THEN <<[loaded EXCEPT !.i = @ + 1,
                                       !.all_results = (symbol :> <<>>) @@ @]>>
                 ELSE <<[loaded EXCEPT !.pc = "strategy",
                                       !.j = 1,
                                       !.data = out.value,
                                       !.all_results = (symbol :> <<>>) @@ @]>>
    /\ UNCHANGED <<pc, strategy, data, call, raised, fetcher, now, returned, calls, procs>>

\* the frame of run_analysis after the strategy at a.j has run with outcome out
strategy_done(a, out) ==
    LET symbol == a.config.symbols[a.i]
        n      == Len(a.config.strategies)
        conf   == a.config.strategies[a.j]
        next   == IF out.raised # "None" THEN after_strategy_error(a.j, n) ELSE a.j + 1
        ran    == [a EXCEPT !.runs = IF out.invoked
                                     THEN Append(@, [symbol |-> symbol,
                                                     name   |-> conf.name,
                                                     raised |-> out.raised])
                                     ELSE @,
                            !.all_results =
                                IF out.stored # <<>>
                                THEN [@ EXCEPT ![symbol] = (conf.name :> out.stored[1]) @@ @]
                                ELSE @]
    IN  IF next > n
        THEN [ran EXCEPT !.pc = "symbol", !.i = @ + 1, !.j = 1]
        ELSE [ran EXCEPT !.j = next]

\* for strategy_config in strategies: one strategy runs on the loaded table
RunStrategy ==
    /\ Running
    /\ analysis[1].pc = "strategy"
    /\ analysis' = <<strategy_done(analysis[1],
                                   run_strategy(analysis[1].config.strategies[analysis[1].j],
                                                analysis[1].data,
                                                analysis[1].config.initial_capital,
                                                analysis[1].config.commission))>>
    /\ UNCHANGED <<pc, strategy, data, call, raised, fetcher, cache, now, io, returned,
                   calls, procs, memo>>

\* return all_results
ReturnResults ==
    /\ Running
    /\ analysis[1].pc = "symbol"
    /\ analysis[1].i > Len(analysis[1].config.symbols)
    /\ analysis' = <<[analysis[1] EXCEPT !.pc = "done"]>>
    /\ returned' = <<analysis[1].all_results>>
    /\ UNCHANGED <<pc, strategy, data, call, raised, fetcher, cache, now, io, calls,
                   procs, memo>>

NextBatch ==
    \/ \E analysis_config \in Configs : RunAnalysis(analysis_config)
    \/ \E o \in ListOutcomes : LoadSymbol(o[1], o[2])
    \/ RunStrategy
    \/ ReturnResults
    \/ Tick

SpecBatch == InitBatch /\ [][NextBatch]_vars

----------------------------------------------------------------------------
(* Properties *)

\* backtest has returned its results
Succeeded == pc = "done" /\ raised = "None"

Results == strategy[1].backtest_results[1]

Equity == Results.equity_curve

\* the tables generate_signals has returned: to the caller, and inside backtest
SignalFrames ==
    (IF "Signal" \in DOMAIN data THEN {data} ELSE {})
        \cup (IF Succeeded THEN {Results.data} ELSE {})

RECURSIVE SumLast(_, _, _)
SumLast(close, i, w) == IF w = 0 THEN 0 ELSE close[i] + SumLast(close, i - 1, w - 1)

\* the sign of MA_short[i] - MA_long[i], for i >= lw where both averages are defined
Spread(close, i, sw, lw) == SumLast(close, i, sw) * lw - SumLast(close, i, lw) * sw

NetOf(self, close, initial_capital, commission) ==
    _calculate_returns(generate_signals(self, [Close |-> close]),
                       initial_capital, commission).Strategy_Returns_Net

(* C1: no look-ahead.  Changing one close at an index j > i, whatever the new
   price, leaves strategy_return_net[i] as it was; two series that agree on
   close[0..i] differ by such changes only, so they yield the same
   strategy_return_net[i]. *)
NoLookAhead ==
    Succeeded =>
        LET close == data.Close
        IN  \A j \in 2..Len(close) : \A v \in Prices \ {close[j]} :
                LET other == NetOf(strategy[1], [close EXCEPT ![j] = v],
                                   call.args[1], call.args[2])
                IN  \A i \in 1..(j - 1) : other[i] = Equity.Strategy_Returns_Net[i]

\* a position is held and earns a nonzero net return before the last date
NoLookAheadWitness ==
    /\ Succeeded
    /\ \E i \in 2..(Len(data.Close) - 1) :
          /\ Equity.Position_Lagged[i] = Float(1)
          /\ Equity.Strategy_Returns_Net[i] \notin {NaN, Float(0)}

(* C2: position is a step function of signal: 1 on a buy signal, 0 on a sell
   signal (on that very date), else the previous date's position, 0 before any
   signal; so it is 0 or 1 and constant between two non-zero signals. *)
PositionStep ==
    \A f \in SignalFrames :
        /\ Len(f.Position) = Len(f.Signal)
        /\ \A i \in Index(f.Signal) :
              /\ f.Position[i] \in {0, 1}
              /\ f.Signal[i] = 1 => f.Position[i] = 1
              /\ f.Signal[i] = -1 => f.Position[i] = 0
              /\ f.Signal[i] = 0 => f.Position[i] = (IF i = 1 THEN 0 ELSE f.Position[i - 1])

\* a buy, at least one date without a signal on which the position is kept, then a sell
PositionStepWitness ==
    \E f \in SignalFrames : \E i, j \in Index(f.Signal) :
        /\ i + 1 < j
        /\ f.Signal[i] = 1
        /\ f.Signal[j] = -1
        /\ \A k \in (i + 1)..(j - 1) : f.Signal[k] = 0 /\ f.Position[k] = 1
        /\ f.Position[j] = 0

(* C3: for a series no shorter than long_window, signal[i] = +1 iff
   MA_short[i] > MA_long[i] and MA_short[i-1] <= MA_long[i-1], signal[i] = -1 iff
   MA_short[i] < MA_long[i] and MA_short[i-1] >= MA_long[i-1], both averages
   being defined at i-1 and i, and signal[i] = 0 otherwise; a tie at i carries
   no signal. *)
CrossingRule ==
    \A f \in SignalFrames :
        LET sw == strategy[1].short_window
            lw == strategy[1].long_window
        IN  Len(f.Close) >= lw =>
                \A i \in Index(f.Close) :
                    LET both == i - 1 >= lw
                        buy  == /\ both
                                /\ Spread(f.Close, i, sw, lw) > 0
                                /\ Spread(f.Close, i - 1, sw, lw) <= 0
                        sell == /\ both
                                /\ Spread(f.Close, i, sw, lw) < 0
                                /\ Spread(f.Close, i - 1, sw, lw) >= 0
                    IN  /\ f.Signal[i] = 1 <=> buy
                        /\ f.Signal[i] = -1 <=> sell
                        /\ f.Signal[i] \in {-1, 0, 1}
                        /\ (i >= lw /\ Spread(f.Close, i, sw, lw) = 0) => f.Signal[i] = 0

\* a tie that follows short < long carries no signal, and a buy fires later
CrossingRuleWitness ==
    \E f \in SignalFrames :
        LET sw == strategy[1].short_window
            lw == strategy[1].long_window
        IN  /\ Len(f.Close) >= lw
            /\ \E k \in (lw + 1)..Len(f.Close) :
                  /\ Spread(f.Close, k, sw, lw) = 0
                  /\ Spread(f.Close, k - 1, sw, lw) < 0
                  /\ f.Signal[k] = 0
            /\ \E i \in Index(f.Signal) : f.Signal[i] = 1

(* C4: no index up to the first one where both averages are defined
   (long_window - 1) carries a signal, even when the averages are strictly
   ordered there. *)
FirstPairNoSignal ==
    \A f \in SignalFrames :
        \A i \in Index(f.Signal) : i <= strategy[1].long_window => f.Signal[i] = 0

\* the averages are strictly ordered at the first index where both are defined
FirstPairNoSignalWitness ==
    \E f \in SignalFrames :
        LET sw == strategy[1].short_window
            lw == strategy[1].long_window
        IN  /\ Len(f.Close) >= lw
            /\ Spread(f.Close, lw, sw, lw) > 0
            /\ f.Signal[lw] = 0

ValidWindows(short_window, long_window) == 2 <= short_window /\ short_window < long_window

\* __init__ accepts valid windows and fails with the exception `error` otherwise;
\* nothing is ever computed by or for a rejected configuration
InitRejectsWith(error) ==
    /\ call.op = "__init__" =>
          IF ValidWindows(call.args[1], call.args[2])
          THEN /\ pc = "ready"
               /\ raised = "None"
               /\ strategy[1].short_window = call.args[1]
               /\ strategy[1].long_window = call.args[2]
          ELSE /\ pc = "failed"
               /\ raised = error
    /\ pc = "failed" =>
          /\ call.op = "__init__"
          /\ strategy = <<>>
          /\ DOMAIN data = {"Close"}
    /\ pc \in {"ready", "done"} =>
          ValidWindows(strategy[1].short_window, strategy[1].long_window)

(* C5, as claimed: windows that violate 2 <= short_window < long_window fail
   with a ConfigurationError before any computation, and every valid pair is
   accepted. *)
InitConfigurationError == InitRejectsWith("ConfigurationError")

(* C5, amended: windows that violate 2 <= short_window < long_window fail with
   a ValueError before any computation (no signal or return is ever computed
   for them), and every valid pair is accepted. *)
InitValueError == InitRejectsWith("ValueError")

\* rejected by the second test alone: short_window < long_window, short_window < 2
InitValueErrorWitness ==
    /\ pc = "failed"
    /\ raised = "ValueError"
    /\ call.args[1] < call.args[2]
    /\ call.args[1] < 2

Zeros(s, n) == Len(s) = n /\ \A i \in 1..n : s[i] = 0

(* C6: on a table shorter than long_window generate_signals raises nothing and
   returns the table, row for row, with signal = 0 and position = 0 at every
   index. *)
NotEnoughDataFlat ==
    /\ call.op = "generate_signals" =>
          LET given == call.args[1].Close
          IN  Len(given) < strategy[1].long_window =>
                  /\ raised = "None"
                  /\ data.Close = given
                  /\ Zeros(data.Signal, Len(given))
                  /\ Zeros(data.Position, Len(given))
    /\ (Succeeded /\ Len(data.Close) < strategy[1].long_window) =>
          /\ Results.data.Close = data.Close
          /\ Zeros(Results.data.Signal, Len(data.Close))
          /\ Zeros(Results.data.Position, Len(data.Close))

\* generate_signals has returned for a table of 1 .. long_window - 1 rows
NotEnoughDataFlatWitness ==
    /\ call.op = "generate_signals"
    /\ raised = "None"
    /\ Len(call.args[1].Close) \in 1..(strategy[1].long_window - 1)
    /\ Len(data.Signal) = Len(call.args[1].Close)

(* C7: backtest called with initial_capital <= 0 or commission outside [0,1]
   fails with a ConfigurationError and computes and stores nothing. *)
BacktestRejectsBadArguments ==
    call.op = "backtest" =>
        LET initial_capital == call.args[1]
            commission == call.args[2]
        IN  (initial_capital <= 0 \/ ~(Le(Float(0), commission) /\ Le(commission, Float(1)))) =>
                /\ raised = "ConfigurationError"
                /\ strategy[1].backtest_results = <<>>

(* C8: backtest on a price series of length 0 or 1 fails with an
   InsufficientDataError and never returns a result with undefined metrics. *)
ShortSeriesInsufficientData ==
    (call.op = "backtest" /\ Len(data.Close) <= 1) =>
        /\ raised = "InsufficientDataError"
        /\ strategy[1].backtest_results = <<>>

(* C9: position_lagged[0] = 0 and position_lagged[i] = position[i-1] for i > 0;
   for i > 0 market_return[i] = close[i]/close[i-1] - 1 and
   strategy_return_gross[i] = position_lagged[i] * market_return[i]: a day's
   return is earned only if the position was held at the previous date. *)
LaggedPosition ==
    Succeeded =>
        LET close == data.Close
        IN  /\ Len(Equity.Position_Lagged) = Len(close)
            /\ Len(Equity.Strategy_Returns) = Len(close)
            /\ Equity.Position_Lagged[1] = Float(0)
            /\ \A i \in 2..Len(close) :
                  LET market_return == Rat(close[i] - close[i - 1], close[i - 1])
                  IN  /\ Equity.Position_Lagged[i] = Float(Equity.Position[i - 1])
                      /\ Equity.Returns[i] = market_return
                      /\ Equity.Strategy_Returns[i] =
                            (IF Equity.Position[i - 1] = 1 THEN market_return ELSE Float(0))

\* the return of the buy date is not earned, a later day's return is
LaggedPositionWitness ==
    /\ Succeeded
    /\ \E i \in 2..Len(data.Close) :
          /\ Equity.Position[i] = 1
          /\ Equity.Position[i - 1] = 0
          /\ Equity.Returns[i] # Float(0)
          /\ Equity.Strategy_Returns[i] = Float(0)
    /\ \E k \in 2..Len(data.Close) : Equity.Strategy_Returns[k] \notin {NaN, Float(0)}

(* C10: for every index i that has a previous one, commission_cost[i] >= 0,
   it is nonzero only if position_lagged[i] differs from position_lagged[i-1],
   and it equals |position_lagged[i] - position_lagged[i-1]| * commission. *)
CommissionNonNegative ==
    Succeeded =>
        \A i \in 2..Len(data.Close) :
            LET changed == Equity.Position_Lagged[i] # Equity.Position_Lagged[i - 1]
            IN  /\ Le(Float(0), Equity.Commission_Cost[i])
                /\ Equity.Commission_Cost[i] # Float(0) => changed
                /\ Equity.Commission_Cost[i] = (IF changed THEN call.args[2] ELSE Float(0))

\* the indexes that carry a buy signal, a sell signal, a commission
Buys == {i \in Index(Equity.Signal) : Equity.Signal[i] = 1}

Sells == {i \in Index(Equity.Signal) : Equity.Signal[i] = -1}

Charged == {i \in Index(Equity.Commission_Cost) :
               Equity.Commission_Cost[i] \notin {NaN, Float(0)}}

\* a backtest with commission = 0.01 over prices with one buy signal and no sell signal
SingleBuy ==
    /\ Succeeded
    /\ call.args[2] = Rat(1, 100)
    /\ Cardinality(Buys) = 1
    /\ Sells = {}

(* C11, as claimed: with commission = 0.01 and prices that give a single buy
   signal and no further signal, exactly one commission_cost entry is nonzero,
   it equals 0.01 and it is on a date where the lagged position changes. *)
SingleBuyOneCommission ==
    SingleBuy =>
        \E i \in 2..Len(data.Close) :
            /\ Charged = {i}
            /\ Equity.Commission_Cost[i] = Rat(1, 100)
            /\ Equity.Position_Lagged[i] # Equity.Position_Lagged[i - 1]

(* C11, amended: with commission = 0.01 and prices that give a single buy
   signal and no further signal, a buy signal before the last date gives
   exactly one nonzero commission_cost entry, equal to 0.01, on the date after
   the signal (where the lagged position changes); a buy signal on the last
   date gives none. *)
SingleBuyCommissionAfterSignal ==
    SingleBuy =>
        \A b \in Buys :
            IF b < Len(data.Close)
            THEN /\ Charged = {b + 1}
                 /\ Equity.Commission_Cost[b + 1] = Rat(1, 100)
                 /\ Equity.Position_Lagged[b + 1] # Equity.Position_Lagged[b]
            ELSE Charged = {}

\* the single buy is held for at least two dates and charged once
SingleBuyCommissionAfterSignalWitness ==
    /\ SingleBuy
    /\ \E b \in Buys :
          /\ b + 2 <= Len(data.Close)
          /\ Charged = {b + 1}

\* backtest has returned for a valid input: at least two prices,
\* initial_capital > 0 and 0 <= commission <= 1
ValidBacktest ==
    /\ Succeeded
    /\ Len(data.Close) >= 2
    /\ call.args[1] > 0
    /\ Le(Float(0), call.args[2])
    /\ Le(call.args[2], Float(1))

Metrics == Results.metrics

\* the product of (1 + net[k]) over the defined k <= i, 1 when there is none
RECURSIVE Compound(_, _)
Compound(net, i) ==
    IF i = 0 THEN Float(1)
    ELSE IF IsNaN(net[i]) THEN Compound(net, i - 1)
    ELSE Mul(Compound(net, i - 1), Add(Float(1), net[i]))

(* C12: cumulative-return identity.  For a valid input and every index i where
   strategy_return_net is defined, portfolio_value[i] is initial_capital times
   the product over k <= i of (1 + strategy_return_net[k]), a product that
   starts from 1 at the first defined index; total_return is that product at
   the last index minus 1. *)
CumulativeIdentity ==
    ValidBacktest =>
        LET net == Equity.Strategy_Returns_Net
            n == Len(data.Close)
        IN  /\ Len(Equity.Portfolio_Value) = n
            /\ \A i \in 1..n :
                  IF IsNaN(net[i])
                  THEN i = 1 /\ IsNaN(Equity.Portfolio_Value[i])
                  ELSE Equity.Portfolio_Value[i] =
                           Mul(Float(call.args[1]), Compound(net, i))
            /\ Metrics.total_return = Sub(Compound(net, n), Float(1))

\* two dates with a nonzero net return, whose factors compound
CumulativeIdentityWitness ==
    /\ ValidBacktest
    /\ \E i, j \in Index(data.Close) :
          /\ i < j
          /\ Equity.Strategy_Returns_Net[i] \notin {NaN, Float(0)}
          /\ Equity.Strategy_Returns_Net[j] \notin {NaN, Float(0)}
    /\ Metrics.total_return \notin {NaN, Float(0)}

(* C13: the buy-and-hold baseline depends on the closes and the capital alone:
   buyhold_value[0] = initial_capital and buyhold_value[i] = initial_capital *
   close[i] / close[0] for every i, whatever the windows, the positions and the
   commission; buyhold_return = close[last] / close[0] - 1 and excess_return =
   total_return - buyhold_return. *)
BuyHoldBaseline ==
    Succeeded =>
        LET close == data.Close
            n == Len(close)
        IN  /\ Len(Equity.BuyHold_Value) = n
            /\ Equity.BuyHold_Value[1] = Float(call.args[1])
            /\ \A i \in 1..n :
                  Equity.BuyHold_Value[i] = Mul(Float(call.args[1]), Rat(close[i], close[1]))
            /\ Metrics.buyhold_return = Sub(Rat(close[n], close[1]), Float(1))
            /\ Metrics.excess_return = Sub(Metrics.total_return, Metrics.buyhold_return)

\* the strategy trades, pays commission and ends away from a baseline that moved
BuyHoldBaselineWitness ==
    /\ Succeeded
    /\ call.args[2] # Float(0)
    /\ \E i \in Index(data.Close) : Equity.Position[i] = 1
    /\ Metrics.buyhold_return \notin {NaN, Float(0)}
    /\ Metrics.excess_return \notin {NaN, Float(0)}

\* the defined strategy_return_net values
DefinedNet == dropna(Equity.Strategy_Returns_Net)

\* sharpe_ratio = 0
ZeroSharpe == DivRoot(Float(0), np_sqrt(Float(1)))

\* the sample variance of r, for two values or more: (n * sum r^2 - (sum r)^2) / (n * (n - 1))
Variance(r) ==
    LET n == Len(r)
        sum == SumUpTo(r, n)
        squares == SumUpTo(Series([i \in Index(r) |-> Mul(r[i], r[i])]), n)
    IN  Div(Sub(Mul(Float(n), squares), Mul(sum, sum)), Float(n * (n - 1)))

(* C14: Sharpe degeneracy.  Whenever the defined strategy_return_net values
   are all equal, a single defined value included, sharpe_ratio is exactly 0,
   not NaN and not infinite; otherwise it is (mean * 252 - 0.02) divided by
   the annualized volatility, the root of 252 times the sample variance. *)
SharpeDegeneracy ==
    (Succeeded /\ Len(DefinedNet) >= 1) =>
        IF \A i, j \in Index(DefinedNet) : DefinedNet[i] = DefinedNet[j]
        THEN Metrics.sharpe_ratio = ZeroSharpe
        ELSE /\ Metrics.sharpe_ratio.num =
                    Sub(Mul(mean(DefinedNet), Float(252)), Rat(2, 100))
             /\ Metrics.sharpe_ratio.root =
                    np_sqrt(Mul(Float(252), Variance(DefinedNet)))
             /\ Lt(Float(0), Variance(DefinedNet))

(* C15: the metrics function is total.  For a price series of length >= 2 and
   valid capital and commission every field of the metrics summary is a
   defined number; zero volatility gives sharpe_ratio = 0 and zero trades give
   win_rate = 0. *)
MetricsTotal ==
    ValidBacktest =>
        /\ ~IsNaN(Metrics.total_return)
        /\ ~IsNaN(Metrics.buyhold_return)
        /\ ~IsNaN(Metrics.excess_return)
        /\ ~IsNaN(Metrics.volatility.sq)
        /\ ~IsNaN(Metrics.sharpe_ratio.num)
        /\ ~IsNaN(Metrics.sharpe_ratio.root.sq)
        /\ Metrics.sharpe_ratio.root.sq # Float(0)
        /\ ~IsNaN(Metrics.max_drawdown)
        /\ ~IsNaN(Metrics.win_rate)
        /\ Metrics.total_trades \in Nat
        /\ Metrics.volatility.sq = Float(0) => Metrics.sharpe_ratio = ZeroSharpe
        /\ Metrics.total_trades = 0 => Metrics.win_rate = Float(0)

\* the running maximum of portfolio_value over the defined indexes up to i
RunningMax(pv, i) ==
    pv[CHOOSE k \in 2..i : \A j \in 2..i : Le(pv[j], pv[k])]

\* (portfolio_value[i] - running maximum up to i) / that running maximum
DrawdownAt(pv, i) == Div(Sub(pv[i], RunningMax(pv, i)), RunningMax(pv, i))

NonDecreasing(pv) == \A i \in 3..Len(pv) : Le(pv[i - 1], pv[i])

(* C16: drawdown bound.  For every valid backtest max_drawdown is the minimum
   over the defined indexes i of (portfolio_value[i] - running maximum of
   portfolio_value up to i) / that running maximum; it is <= 0, and it is 0
   iff portfolio_value never decreases over the defined series. *)
DrawdownBound ==
    ValidBacktest =>
        LET pv == Equity.Portfolio_Value
        IN  /\ \A i \in 2..Len(pv) : Le(Metrics.max_drawdown, DrawdownAt(pv, i))
            /\ \E i \in 2..Len(pv) : Metrics.max_drawdown = DrawdownAt(pv, i)
            /\ Le(Metrics.max_drawdown, Float(0))
            /\ Metrics.max_drawdown = Float(0) <=> NonDecreasing(pv)

\* the portfolio climbs to a new high, after a fall or before one
DrawdownBoundWitness ==
    /\ ValidBacktest
    /\ Lt(Metrics.max_drawdown, Float(0))
    /\ \E i \in 3..Len(data.Close) :
          Lt(Equity.Portfolio_Value[i - 1], Equity.Portfolio_Value[i])

(* C17: total_trades is the number of indexes with a defined, nonzero
   strategy_return_net (days, not buy/sell transactions); win_rate is the
   number of indexes with strategy_return_net > 0 divided by total_trades, or
   0 when total_trades = 0; so 0 <= win_rate <= 1. *)
TradeCounts ==
    Succeeded =>
        LET net == Equity.Strategy_Returns_Net
            nonzero == {i \in Index(net) : net[i] \notin {NaN, Float(0)}}
            wins == {i \in Index(net) : Gt(net[i], Float(0))}
        IN  /\ Metrics.total_trades = Cardinality(nonzero)
            /\ Metrics.win_rate = (IF nonzero = {} THEN Float(0)
                                   ELSE Rat(Cardinality(wins), Cardinality(nonzero)))
            /\ Le(Float(0), Metrics.win_rate)
            /\ Le(Metrics.win_rate, Float(1))

\* a winning day, a losing day and a day without return after the position is taken
TradeCountsWitness ==
    /\ Succeeded
    /\ \E i, j, k \in 2..Len(data.Close) :
          /\ Gt(Equity.Strategy_Returns_Net[i], Float(0))
          /\ Lt(Equity.Strategy_Returns_Net[j], Float(0))
          /\ Equity.Strategy_Returns_Net[k] = Float(0)
    /\ Metrics.total_trades < Len(DefinedNet)
    /\ Lt(Float(0), Metrics.win_rate)
    /\ Lt(Metrics.win_rate, Float(1))

Constant(close) == \A i, j \in Index(close) : close[i] = close[j]

(* C18: for a constant price series of any length >= long_window no crossing
   fires, signal = 0 and position = 0 everywhere, and the backtest reports
   total_trades = 0, total_return = 0, sharpe_ratio = 0 and max_drawdown = 0. *)
ConstantSeriesFlat ==
    /\ \A f \in SignalFrames :
          (Constant(f.Close) /\ Len(f.Close) >= strategy[1].long_window) =>
              /\ Zeros(f.Signal, Len(f.Close))
              /\ Zeros(f.Position, Len(f.Close))
    /\ (Succeeded /\ Constant(data.Close) /\ Len(data.Close) >= strategy[1].long_window) =>
          /\ Metrics.total_trades = 0
          /\ Metrics.total_return = Float(0)
          /\ Metrics.sharpe_ratio = ZeroSharpe
          /\ Metrics.max_drawdown = Float(0)

\* the tables generate_signals has returned to a strategy with short_window = 2, long_window = 3
ScenarioFrames ==
    {f \in SignalFrames : strategy[1].short_window = 2 /\ strategy[1].long_window = 3}

(* C19, as claimed: with short_window = 2, long_window = 3 and closes
   10, 10, 20, 20, 5, 5 continuing at 5, generate_signals gives exactly one +1
   followed later by exactly one -1; position is 0 before the buy date, 1 from
   the buy date until the sell date and 0 from the sell date on. *)
ScenarioBuyThenSell ==
    \A f \in ScenarioFrames :
        \E b, e \in Index(f.Signal) :
            /\ b < e
            /\ {i \in Index(f.Signal) : f.Signal[i] = 1} = {b}
            /\ {i \in Index(f.Signal) : f.Signal[i] = -1} = {e}
            /\ \A i \in Index(f.Position) :
                  f.Position[i] = (IF b <= i /\ i < e THEN 1 ELSE 0)

(* C19, amended: with short_window = 2, long_window = 3 and closes
   10, 10, 20, 20, 5, 5 continuing at 5, generate_signals gives no +1 at all
   (the short average is above the long one from the first defined pair on,
   which is no crossing) and exactly one -1, at index 4; position is 0 on
   every date. *)
ScenarioSellOnly ==
    \A f \in ScenarioFrames :
        /\ Len(f.Signal) = Len(f.Close)
        /\ \A i \in Index(f.Signal) : f.Signal[i] = (IF i = 5 THEN -1 ELSE 0)
        /\ Zeros(f.Position, Len(f.Close))

\* the series continues at 5 after the sell signal, the averages tie from index 6 on
ScenarioSellOnlyWitness ==
    \E f \in ScenarioFrames :
        /\ Len(f.Close) >= 8
        /\ Gt(f.MA_short[3], f.MA_long[3])
        /\ f.Signal[5] = -1
        /\ f.MA_short[7] = f.MA_long[7]

\* a call leaves the caller's table as it was, and what backtest stores is what a
\* new strategy object with the same windows computes from the closes and the
\* arguments of the call
CallIsPure ==
    /\ call'.op \in {"generate_signals", "backtest"} => data' = data
    /\ (call'.op = "backtest" /\ raised' = "None") =>
          LET fresh == _calculate_returns(generate_signals(strategy[1], [Close |-> data.Close]),
                                          call'.args[1], call'.args[2])
              stored == strategy'[1].backtest_results[1]
          IN  /\ stored.metrics = _calculate_metrics(fresh)
              /\ \A c \in DOMAIN fresh : stored.equity_curve[c] = fresh[c]

(* C20: the engine is stateless and does not mutate its input.  After backtest
   or generate_signals returns, the caller's price table is unchanged, no
   column added or altered, and the result of a backtest depends only on its
   arguments. *)
StatelessNoMutation == [][CallIsPure]_vars

----------------------------------------------------------------------------
(* Properties of run_analysis *)

Analysis == analysis[1]

Returned == analysis # <<>> /\ Analysis.pc = "done"

\* the load of a symbol failed: get_stock_data raised or gave no rows, or
\* the table handed to run_analysis is empty or has no column at all
LoadFailed(l) ==
    \/ /\ l.contact # <<>>
       /\ \/ l.contact[1].raised # "None"
          \/ Len(l.contact[1].returned[1].Close) = 0
    \/ DOMAIN l.value = {}
    \/ Len(l.value.Close) = 0

\* the engine was invoked on the symbol: a strategy object was constructed
Invoked(symbol) == \E k \in DOMAIN Analysis.runs : Analysis.runs[k].symbol = symbol

Evaluated(symbol, name) ==
    \E k \in DOMAIN Analysis.runs :
        Analysis.runs[k].symbol = symbol /\ Analysis.runs[k].name = name

\* what a backtest of the configured strategy on the table gives when
\* construction and backtest both succeed
Expected(conf, df) ==
    IF conf.params.short >= conf.params.long \/ conf.params.short < 2
    THEN <<>>
    ELSE backtest_results(
             _calculate_returns(
                 generate_signals([short_window |-> conf.params.short,
                                   long_window  |-> conf.params.long],
                                  df),
                 Analysis.config.initial_capital, Analysis.config.commission),
             Analysis.config.initial_capital, Analysis.config.commission).results

(* C21: batch isolation.  When run_analysis has returned, every symbol was
   loaded, and for every symbol whose table was loaded every 'ma' strategy of
   the configuration was evaluated on it, whatever failed for other symbols or
   other strategies; every pair whose backtest succeeds is in the returned
   results with what the backtest returned. *)
BatchIsolation ==
    Returned =>
        /\ raised = "None"
        /\ returned = <<Analysis.all_results>>
        /\ Len(Analysis.loads) = Len(Analysis.config.symbols)
        /\ \A k \in DOMAIN Analysis.loads : Analysis.loads[k].symbol = Analysis.config.symbols[k]
        /\ \A k \in DOMAIN Analysis.loads, j \in DOMAIN Analysis.config.strategies :
              LET l    == Analysis.loads[k]
                  conf == Analysis.config.strategies[j]
              IN  (~LoadFailed(l) /\ conf.type = "ma") =>
                     /\ Evaluated(l.symbol, conf.name)
                     /\ Expected(conf, l.value) # <<>> =>
                           /\ l.symbol \in DOMAIN returned[1]
                           /\ conf.name \in DOMAIN returned[1][l.symbol]
                           /\ returned[1][l.symbol][conf.name].results = Expected(conf, l.value)[1]

\* a run in which the load of one symbol failed, one strategy failed on the
\* other symbol and the strategy after it is in the results
BatchIsolationWitness ==
    /\ Returned
    /\ \E k \in DOMAIN Analysis.loads : LoadFailed(Analysis.loads[k])
    /\ \E k \in DOMAIN Analysis.runs :
          /\ Analysis.runs[k].raised # "None"
          /\ "MA 2/3" \in DOMAIN returned[1][Analysis.runs[k].symbol]

(* C22: if fetching the price series of a symbol fails, or the series is empty
   or absent, the engine is never invoked for that symbol: run_analysis runs
   no backtest on it, stores nothing for it and goes on to the next symbol. *)
FailedFetchSkipsEngine ==
    analysis # <<>> =>
        /\ \A k \in DOMAIN Analysis.loads :
              LoadFailed(Analysis.loads[k]) =>
                 /\ ~Invoked(Analysis.loads[k].symbol)
                 /\ Analysis.loads[k].symbol \notin DOMAIN Analysis.all_results
        /\ Returned => Len(Analysis.loads) = Len(Analysis.config.symbols)

\* the fetch of the first symbol raised, the engine ran on the second one only
FailedFetchSkipsEngineWitness ==
    /\ Returned
    /\ Len(Analysis.loads) = 2
    /\ Analysis.loads[1].contact # <<>>
    /\ Analysis.loads[1].contact[1].raised = "ValueError"
    /\ ~Invoked(Analysis.loads[1].symbol)
    /\ Invoked(Analysis.loads[2].symbol)

----------------------------------------------------------------------------
(* Properties of DataFetcher *)

\* the step is a call of get_stock_data
IsGetStockData == calls' = calls + 1 /\ call'.op = "get_stock_data"

\* the cache file a get_stock_data call addresses: upper-cased, stripped symbol
\* and period
Key(c) == <<strip(upper(c.args[1])), c.args[2]>>

\* the file exists and is younger than h hours
Young(file, h, clock) == exists(file) /\ clock - file[1].mtime < h

\* the file holds a whole pickle
Complete(file) ==
    /\ exists(file)
    /\ Len(file[1].bytes) = 3
    /\ file[1].bytes[1] = "PROTO"
    /\ file[1].bytes[3] = "STOP"

Pickled(file) == file[1].bytes[2]

\* the provider raised, or answered with no rows
ProviderFailed(answer) == answer.raised # "None" \/ answer.Close = <<>>

\* the call is served from the cache: no refresh is forced and the file is young
Hit == ~call'.args[3] /\ Young(cache[Key(call')], fetcher[1].cache_hours, now)

\* the call repeats, with no time passed and no refresh forced, a call of
\* get_stock_data for the same normalized symbol and period that returned data
Repeats ==
    /\ call.op = "get_stock_data"
    /\ raised = "None"
    /\ call.at = now
    /\ Key(call) = Key(call')
    /\ ~call'.args[3]

SameAgain == raised' = "None" /\ returned' = returned /\ ~io'[1].fetch

CachePolicyAsClaimed ==
    IsGetStockData =>
        /\ io'[1].fetch <=> ~Hit
        /\ Hit => /\ raised' = "None"
                  /\ Complete(cache[Key(call')])
                  /\ returned' = <<Pickled(cache[Key(call')])>>
        /\ Repeats => SameAgain

CachePolicyAmended ==
    IsGetStockData =>
        /\ io'[1].fetch <=> ~Hit
        /\ Hit => IF Complete(cache[Key(call')])
                  THEN raised' = "None" /\ returned' = <<Pickled(cache[Key(call')])>>
                  ELSE raised' \in {"EOFError", "UnpicklingError"} /\ returned' = <<>>
        /\ (/\ Repeats
            /\ fetcher[1].cache_hours > 0
            /\ io[1].fetch => io[1].saved) => SameAgain

(* C24 as stated: get_stock_data contacts the provider iff force_refresh is set
   or no cache file for the normalized symbol and period is younger than
   cache_hours; otherwise it returns the cached data, which is the data the
   populating fetch returned, so a call right after a successful call returns
   identical data without a second fetch. *)
CacheHitPolicy == [][CachePolicyAsClaimed]_vars

(* C24 amended: the provider is contacted iff force_refresh is set or no cache
   file for the normalized symbol and period is younger than cache_hours.  A
   call served from the cache returns the pickled table when the file holds a
   whole pickle and raises the unpickling error otherwise.  A call right after
   a call that returned data returns identical data without a fetch when
   cache_hours is positive and the earlier call either was itself served from
   the cache or wrote the cache file completely. *)
CacheHitPolicyAmended == [][CachePolicyAmended]_vars

\* a second call, spelled "A ", is served without a fetch from the file a first
\* call wrote
CacheHitPolicyWitness ==
    /\ calls = 2
    /\ call.op = "get_stock_data"
    /\ call.args[1] = <<"A", " ">>
    /\ ~io[1].fetch
    /\ raised = "None"
    /\ returned = <<Pickled(cache[Key(call)])>>

(* C25: get_multiple_stocks attempts every symbol and returns a mapping that
   holds exactly the symbols for which get_stock_data succeeded, each with its
   data; a failing symbol is skipped and no exception is raised. *)
MultipleStocksIsolated ==
    call.op = "get_multiple_stocks" =>
        /\ raised = "None"
        /\ Len(io) = Len(call.args[1])
        /\ LET ok == {i \in DOMAIN io : io[i].raised = "None"}
           IN  /\ DOMAIN returned[1] = {io[i].symbol : i \in ok}
               /\ \A i \in ok : returned[1][io[i].symbol] = io[i].returned[1]

FallbackAsClaimed ==
    IsGetStockData =>
        LET file == cache[Key(call')]
            c    == io'[1]
        IN  /\ raised' \in {"None", "ValueError"}
            /\ (c.fetch /\ ProviderFailed(c.answer[1])) =>
                  IF exists(file)
                  THEN raised' = "None" /\ Complete(file) /\ returned' = <<Pickled(file)>>
                  ELSE raised' = "ValueError"
            /\ (c.fetch /\ ~ProviderFailed(c.answer[1])) =>
                  raised' = "None" /\ returned' = <<_fetch_from_yahoo(c.answer[1])>>

(* C26: when the provider fetch raises or returns no rows, get_stock_data
   returns the existing cache file's data, stale or not, if the file exists and
   raises ValueError otherwise; ValueError is the only exception it lets
   escape; a failed cache write never fails the call. *)
FetchFailureFallback == [][FallbackAsClaimed]_vars

\* the threads whose provider fetch for the path is in flight
InFlight(path) == {t \in DOMAIN procs : procs[t].pc = "fetch" /\ procs[t].path = path}

\* a thread has loaded a cache file that did not hold a whole pickle
LoadedPartial(t) == procs[t].pc = "done" /\ procs[t].raised \in {"EOFError", "UnpicklingError"}

(* C23: for concurrent get_stock_data calls on the same symbol and period, at
   most one provider fetch is in flight per cache key, and no reader ever
   loads a partially written cache file. *)
CoordinatedCache ==
    /\ \A path \in Paths : Cardinality(InFlight(path)) <= 1
    /\ \A t \in DOMAIN procs : ~LoadedPartial(t)

----------------------------------------------------------------------------
(* Properties of the signals and of the charged returns *)

(* C27: the strategy is long only while the short average is not below the long
   one.  In every table generate_signals returns, position[i] = 1 implies that
   both moving averages are defined at i and MA_short[i] >= MA_long[i]. *)
LongOnlyAbove ==
    \A f \in SignalFrames :
        \A i \in Index(f.Position) :
            f.Position[i] = 1 =>
                /\ "MA_short" \in DOMAIN f
                /\ i >= strategy[1].long_window
                /\ ~IsNaN(f.MA_short[i])
                /\ ~IsNaN(f.MA_long[i])
                /\ Spread(f.Close, i, strategy[1].short_window, strategy[1].long_window) >= 0

\* a position held while the short average is above the long one and still held
\* when the two tie
LongOnlyAboveWitness ==
    \E f \in SignalFrames :
        \E i, k \in Index(f.Position) :
            /\ f.Position[i] = 1
            /\ Spread(f.Close, i, strategy[1].short_window, strategy[1].long_window) > 0
            /\ f.Position[k] = 1
            /\ f.MA_short[k] = f.MA_long[k]

\* the indexes of a table that carry a non-zero signal
NonZero(f) == {i \in Index(f.Signal) : f.Signal[i] # 0}

\* k is the non-zero signal that follows the non-zero signal i
Successive(f, i, k) == i < k /\ \A m \in NonZero(f) : ~(i < m /\ m < k)

\* no non-zero signal comes before k
First(f, k) == \A m \in NonZero(f) : m >= k

\* the position when the signal at index k fires
PositionBefore(f, k) == IF k = 1 THEN 0 ELSE f.Position[k - 1]

(* C28 as stated: the non-zero signals of generate_signals strictly alternate
   starting with a buy: the first non-zero signal is +1, no two successive
   non-zero signals have the same sign, every +1 fires while position is 0 and
   every -1 fires while position is 1. *)
SignalsAlternate ==
    \A f \in SignalFrames :
        \A k \in NonZero(f) :
            /\ First(f, k) => f.Signal[k] = 1
            /\ \A i \in NonZero(f) : Successive(f, i, k) => f.Signal[i] # f.Signal[k]
            /\ f.Signal[k] = 1 => PositionBefore(f, k) = 0
            /\ f.Signal[k] = -1 => PositionBefore(f, k) = 1

\* the sign of MA_short[i] - MA_long[i] in a table of the strategy
SpreadAt(f, i) == Spread(f.Close, i, strategy[1].short_window, strategy[1].long_window)

(* C28 amended: signals follow the crossings of the averages, not the
   position.  A -1 fires when the short average falls below the long one from
   at or above it, also as the first non-zero signal, while position is 0; a
   +1 fires when it rises above from at or below.  Two successive non-zero
   signals have the same sign only if the averages tie on the date before the
   second one, a date after the first one.  A +1 fires while position is 0
   unless the non-zero signal before it is a +1, and a -1 fires while position
   is 1 unless it is the first non-zero signal or the non-zero signal before
   it is a -1. *)
SignalsAlternateUnlessTie ==
    \A f \in SignalFrames :
        \A k \in NonZero(f) :
            /\ k > strategy[1].long_window
            /\ f.Signal[k] = 1 => SpreadAt(f, k) > 0 /\ SpreadAt(f, k - 1) <= 0
            /\ f.Signal[k] = -1 => SpreadAt(f, k) < 0 /\ SpreadAt(f, k - 1) >= 0
            /\ \A i \in NonZero(f) :
                  (Successive(f, i, k) /\ f.Signal[i] = f.Signal[k]) =>
                      /\ i < k - 1
                      /\ SpreadAt(f, k - 1) = 0
            /\ f.Signal[k] = 1 =>
                  (PositionBefore(f, k) = 0 <=>
                      \A i \in NonZero(f) : Successive(f, i, k) => f.Signal[i] = -1)
            /\ f.Signal[k] = -1 =>
                  (PositionBefore(f, k) = 1 <=>
                      \E i \in NonZero(f) : Successive(f, i, k) /\ f.Signal[i] = 1)

\* a table with two buy signals and no sell signal between them: the second
\* one fires while position is 1
SignalsAlternateUnlessTieWitness ==
    \E f \in SignalFrames :
        \E i, k \in NonZero(f) :
            /\ Successive(f, i, k)
            /\ f.Signal[i] = 1
            /\ f.Signal[k] = 1
            /\ f.Position[k - 1] = 1

\* the indexes at which the position changes, the position before the first
\* date being 0
Changes == {i \in Index(Equity.Position) : Equity.Position[i] # PositionBefore(Equity, i)}

\* backtest has returned for a valid input with commission > 0
ChargedBacktest == ValidBacktest /\ Gt(call.args[2], Float(0))

(* C29 as stated: a signal at index i that changes position produces a nonzero
   commission_cost at index i+1 and none at index i, so for commission > 0 the
   number of nonzero commission_cost entries equals the number of position
   changes among indexes 0..n-2, and a position change on the last date is
   never charged. *)
CommissionDayAfter ==
    ChargedBacktest =>
        /\ \A i \in Changes :
              /\ i < Len(Equity.Position) => i + 1 \in Charged
              /\ i \notin Charged
        /\ Cardinality(Charged) = Cardinality(Changes \ {Len(Equity.Position)})

(* C29 amended: for commission > 0, commission_cost[i+1] is nonzero exactly
   when position changes at index i, and then it equals commission; the entry
   at the index of a change is nonzero only when position also changed on the
   date before.  So the number of nonzero commission_cost entries equals the
   number of position changes among indexes 0..n-2, and a position change on
   the last date is never charged. *)
CommissionDayAfterChange ==
    ChargedBacktest =>
        /\ \A i \in Index(Equity.Position) :
              /\ i < Len(Equity.Position) =>
                    /\ i + 1 \in Charged <=> i \in Changes
                    /\ i \in Changes => Equity.Commission_Cost[i + 1] = call.args[2]
              /\ i \in Charged => (i > 1 /\ i - 1 \in Changes)
        /\ Cardinality(Charged) = Cardinality(Changes \ {Len(Equity.Position)})

\* position changes on two dates in a row, so the date of the second change
\* carries the charge of the first, and it changes on the last date
CommissionDayAfterChangeWitness ==
    /\ ChargedBacktest
    /\ \E i \in Changes : i + 1 \in Changes /\ i + 1 \in Charged
    /\ Len(Equity.Position) \in Changes

(* C30: for initial_capital > 0, commission in [0,1] and strictly positive
   closes, portfolio_value never becomes negative: at every defined index i of
   the equity curve 1 + strategy_return_net[i] >= 0 and
   portfolio_value[i] >= 0. *)
PortfolioNonNegative ==
    ValidBacktest =>
        \A i \in Index(Equity.Strategy_Returns_Net) :
            ~IsNaN(Equity.Strategy_Returns_Net[i]) =>
                /\ Le(Float(0), Add(Float(1), Equity.Strategy_Returns_Net[i]))
                /\ Le(Float(0), Equity.Portfolio_Value[i])

====
